---- MODULE Spec2Model ----
(***************************************************************************)
(* The MicroLend MVP ledger contract (blockchain/contracts/MicroLend.sol)  *)
(* as a state machine.  A contract call runs until it makes an external    *)
(* value transfer (`addr.call{value: x}("")`); the recipient then accepts, *)
(* rejects, or calls back into the contract before answering.  A revert    *)
(* restores the storage and balances the reverted call started from.       *)
(***************************************************************************)
EXTENDS Integers, Sequences, FiniteSets, TLC

\* ---------------------------------------------------------------- bounds
MaxLoans == 1        \* loans that may be created
MaxAmount == 2       \* largest requested amount in wei
MaxDepth == 2        \* nesting of contract calls (1 = no re-entrancy)
MaxTime == 2         \* days the clock may advance
MoreLoans == 2       \* loans that may be created where several loans matter

\* ------------------------------------------------------------ constants
DAY == 86400         \* `1 days`
BPS == 10000         \* basis-point denominator

Addr == {"alice", "bob"}          \* externally owned accounts and contracts
Contract == "MicroLend"           \* address(this)
ZeroAddr == "0x0"                 \* address(0)
Ids == 0..MaxLoans                \* loan ids a caller may pass (0 is never assigned)
Amounts == 0..MaxAmount
Rates == {0, 5000}
DurationDays == {0, 1}
Purposes == {"seed"}
Values == 0..(MaxAmount + 1)      \* msg.value

VARIABLES
    loans,           \* mapping(uint256 => Loan)
    investments,     \* mapping(uint256 => mapping(address => uint256))
    loanLenders,     \* mapping(uint256 => address[])
    allLoanIds,      \* uint256[]
    loanIdCounter,   \* _loanIdCounter
    balance,         \* ether: the contract's balance, and each account's net flow
    events,          \* the event log, per indexed loanId
    disbursed,       \* the principal transfers made to borrowers, per loan
    now,             \* block.timestamp
    stack            \* contract invocations in progress, innermost last

chain == <<loans, investments, loanLenders, allLoanIds, loanIdCounter, balance, events, disbursed>>

\* The browser side: the wallet, the client adapter's module state, the
\* user interface that listens to it, and the mock REST route.
VARIABLES
    selectedAccount,        \* the wallet: accounts[0], or NoAccount
    chainId,                \* the wallet: the active chain
    signer,                 \* provider, signer and contract: the signer's address, or Null
    detecting,              \* the wallet's events are wired to the adapter's handlers
    inits,                  \* the initEthers runs awaiting the wallet, by who awaits them
    walletChangeListeners,  \* walletChangeListeners
    handles,                \* the listeners an unsubscribe handle was returned for
    notification,           \* the last notifyWalletChanged: the list it started from, what it did
    reported,               \* what WalletProvider's listener last got from getConnectedAccount
    call,                   \* the client call in flight, or NoCall
    lastRequest,            \* the last request made to the wallet
    mockLoans,              \* the cancel route's mockLoans, by id
    response                \* the answer to the last cancel

offchain == <<selectedAccount, chainId, signer, detecting, inits, walletChangeListeners,
              handles, notification, reported, call, lastRequest, mockLoans, response>>

vars == <<loans, investments, loanLenders, allLoanIds, loanIdCounter, balance, events, disbursed,
          now, stack, offchain>>

SEPOLIA_CHAIN_ID == 11155111
ChainIds == {SEPOLIA_CHAIN_ID, SEPOLIA_CHAIN_ID + 1}
NoAccount == "noAccount"
Null == "null"
NoCall == [op |-> "none"]
NoTx == [from |-> Null]
NoRequest == <<"none", "none">>
NoResponse == [via |-> "none"]
Unset == [from |-> NoAccount, to |-> NoAccount, got |-> "unset"]

\* The page has just loaded: the module's variables hold their initial
\* values, nothing is subscribed and no call is running.
PageLoaded ==
    [signer |-> Null, detecting |-> FALSE, inits |-> {}, walletChangeListeners |-> <<>>,
     handles |-> {}, notification |-> [before |-> <<>>, trace |-> <<>>],
     reported |-> Unset, call |-> NoCall]

InitOffchain ==
    /\ selectedAccount = NoAccount
    /\ chainId = SEPOLIA_CHAIN_ID
    /\ signer = PageLoaded.signer
    /\ detecting = PageLoaded.detecting
    /\ inits = PageLoaded.inits
    /\ walletChangeListeners = PageLoaded.walletChangeListeners
    /\ handles = PageLoaded.handles
    /\ notification = PageLoaded.notification
    /\ reported = PageLoaded.reported
    /\ call = PageLoaded.call
    /\ lastRequest = NoRequest
    /\ mockLoans = [id \in {"1", "2"} |-> IF id = "1" THEN "pending" ELSE "funded"]
    /\ response = NoResponse

\* The zero value of the Loan struct: what an unassigned mapping slot reads as.
NoLoan ==
    [id |-> 0, borrower |-> ZeroAddr, amount |-> 0, interestRate |-> 0,
     duration |-> 0, purpose |-> "", status |-> "Funding", amountFunded |-> 0,
     createdAt |-> 0, dueDate |-> 0]

\* Storage, balances and log as one value: what a revert restores.
State ==
    [loans |-> loans, investments |-> investments, loanLenders |-> loanLenders,
     allLoanIds |-> allLoanIds, loanIdCounter |-> loanIdCounter,
     balance |-> balance, events |-> events, disbursed |-> disbursed]

InitState ==
    [loans |-> [i \in Ids |-> NoLoan],
     investments |-> [i \in Ids |-> [a \in Addr |-> 0]],
     loanLenders |-> [i \in Ids |-> <<>>],
     allLoanIds |-> <<>>,
     loanIdCounter |-> 0,
     balance |-> [a \in Addr \cup {Contract} |-> 0],
     events |-> [i \in Ids |-> <<>>],
     disbursed |-> [i \in Ids |-> <<>>]]

\* A transfer of v wei.
Pay(S, from, to, v) ==
    [S EXCEPT !.balance = [@ EXCEPT ![from] = @ - v, ![to] = @ + v]]

\* `emit` of an event whose indexed loanId is id.
Emit(S, id, e) == [S EXCEPT !.events[id] = Append(@, e)]

\* ------------------------------------------------------------- invocations
AwaitPcs == {"refund", "disburse", "pay"}
EndPcs == {"done", "reverted"}

NewFrame(op, id, sender, value, S0) ==
    [op |-> op, id |-> id, sender |-> sender, value |-> value,
     pc |-> "run", err |-> "", snap |-> S0, pre |-> S0,
     to |-> ZeroAddr, amt |-> 0,
     amountToFund |-> 0, remainingNeeded |-> 0,
     total |-> 0, lenders |-> <<>>, i |-> 0, distributionSuccess |-> TRUE,
     sent |-> <<>>, failed |-> FALSE, args |-> <<>>]

\* The call returns normally.
Done(S, f) == [st |-> S, fr |-> [f EXCEPT !.pc = "done", !.pre = f.snap]]

\* `revert`: everything the call did, the receipt of msg.value included, is undone.
Revert(f, e) ==
    [st |-> f.snap,
     fr |-> [NewFrame(f.op, f.id, f.sender, f.value, f.snap)
                EXCEPT !.pc = "reverted", !.err = e, !.sent = f.sent,
                       !.failed = f.failed, !.args = f.args]]

\* `to.call{value: amt}("")` with enough balance: the value moves and the
\* recipient's code runs; f.pre is what comes back if the recipient reverts.
Await(S, f, pc, to, amt) ==
    LET S1 == Pay(S, Contract, to, amt) IN
    [st |-> IF pc = "disburse"
            THEN [S1 EXCEPT !.disbursed[f.id] = Append(@, <<to, amt>>)]
            ELSE S1,
     fr |-> [f EXCEPT !.pc = pc, !.to = to, !.amt = amt, !.pre = S]]

\* A transfer of the call came back with success = false.
Failed(f) == [f EXCEPT !.failed = TRUE]

\* A transfer of the call came back with success = true.
Sent(f) == [f EXCEPT !.sent = Append(@, <<f.pc, f.to, f.amt>>)]

\* ------------------------------------------------------------- createLoan
\* Mutant of CreateLoanRun: the counter is read but not advanced.
CreateLoanRun_ReusesId(S, f, amount, interestRate, durationDays, purpose, t) ==
    IF amount = 0 THEN Revert(f, "AmountMustBePositive")
    ELSE IF durationDays = 0 THEN Revert(f, "DurationMustBePositive")
    ELSE
        LET newLoanId == S.loanIdCounter + 1
            durationSeconds == durationDays * DAY
            newLoan == [id |-> newLoanId, borrower |-> f.sender, amount |-> amount,
                        interestRate |-> interestRate, duration |-> durationSeconds,
                        purpose |-> purpose, status |-> "Funding", amountFunded |-> 0,
                        createdAt |-> t, dueDate |-> t + durationSeconds]
            S1 == [S EXCEPT !.loans[newLoanId] = newLoan,
                            !.allLoanIds = Append(@, newLoanId)]
        IN  Done(Emit(S1, newLoanId,
                      <<"LoanCreated", f.sender, amount, interestRate, durationSeconds>>),
                 [f EXCEPT !.id = newLoanId])

CreateLoanRun(S, f, amount, interestRate, durationDays, purpose, t) ==
    IF amount = 0 THEN Revert(f, "AmountMustBePositive")
    ELSE IF durationDays = 0 THEN Revert(f, "DurationMustBePositive")
    ELSE
        LET newLoanId == S.loanIdCounter + 1
            durationSeconds == durationDays * DAY
            newLoan == [id |-> newLoanId, borrower |-> f.sender, amount |-> amount,
                        interestRate |-> interestRate, duration |-> durationSeconds,
                        purpose |-> purpose, status |-> "Funding", amountFunded |-> 0,
                        createdAt |-> t, dueDate |-> t + durationSeconds]
            S1 == [S EXCEPT !.loanIdCounter = newLoanId,
                            !.loans[newLoanId] = newLoan,
                            !.allLoanIds = Append(@, newLoanId)]
        IN  Done(Emit(S1, newLoanId,
                      <<"LoanCreated", f.sender, amount, interestRate, durationSeconds>>),
                 [f EXCEPT !.id = newLoanId])

\* --------------------------------------------------------------- fundLoan
\* Mutant of FundLoanActivate: only a contribution of the whole amount
\* activates the loan.
FundLoanActivate_OnlySingleCall(S, f) ==
    LET loan == S.loans[f.id] IN
    IF f.amountToFund = loan.amount THEN
        LET S1 == [S EXCEPT !.loans[f.id].status = "Active"] IN
        IF S1.balance[Contract] < loan.amount THEN Revert(Failed(f), "TransferFailed")
        ELSE Await(S1, f, "disburse", loan.borrower, loan.amount)
    ELSE Done(S, f)

\* Mutant of FundLoanActivate: the borrower is sent the last contribution
\* instead of the whole amount.
FundLoanActivate_PaysLastContribution(S, f) ==
    LET loan == S.loans[f.id] IN
    IF loan.amountFunded = loan.amount THEN
        LET S1 == [S EXCEPT !.loans[f.id].status = "Active"] IN
        IF S1.balance[Contract] < f.amountToFund THEN Revert(Failed(f), "TransferFailed")
        ELSE Await(S1, f, "disburse", loan.borrower, f.amountToFund)
    ELSE Done(S, f)

\* Lines 138-147: the full-funding check, the status change and the
\* disbursement to the borrower.
FundLoanActivate(S, f) ==
    LET loan == S.loans[f.id] IN
    IF loan.amountFunded = loan.amount THEN
        LET S1 == [S EXCEPT !.loans[f.id].status = "Active"] IN
        IF S1.balance[Contract] < loan.amount THEN Revert(Failed(f), "TransferFailed")
        ELSE Await(S1, f, "disburse", loan.borrower, loan.amount)
    ELSE Done(S, f)

\* Mutant of FundLoanCredit: the investment is booked under the lender for
\* every loan, as if the mapping were keyed by lender alone.
FundLoanCredit_InvestmentPerLender(S, f) ==
    LET id == f.id
        lender == f.sender
        a == f.amountToFund
    IN  IF a > 0 THEN
            LET S1 == [S EXCEPT !.loans[id].amountFunded = @ + a,
                                !.investments = [j \in DOMAIN @ |->
                                                    [@[j] EXCEPT ![lender] = @ + a]]]
                S2 == IF S1.investments[id][lender] - a = 0
                      THEN [S1 EXCEPT !.loanLenders[id] = Append(@, lender)]
                      ELSE S1
            IN  FundLoanActivate(Emit(S2, id, <<"LoanFunded", lender, a>>), f)
        ELSE FundLoanActivate(S, f)

\* Mutant of FundLoanCredit: every contribution appends its sender to the roster.
FundLoanCredit_AlwaysAppends(S, f) ==
    LET id == f.id
        lender == f.sender
        a == f.amountToFund
    IN  IF a > 0 THEN
            LET S1 == [S EXCEPT !.loans[id].amountFunded = @ + a,
                                !.investments[id][lender] = @ + a]
                S2 == [S1 EXCEPT !.loanLenders[id] = Append(@, lender)]
            IN  FundLoanActivate(Emit(S2, id, <<"LoanFunded", lender, a>>), f)
        ELSE FundLoanActivate(S, f)

\* Lines 122-136: the credit to the loan, the lender's investment and the roster.
FundLoanCredit(S, f) ==
    LET id == f.id
        lender == f.sender
        a == f.amountToFund
    IN  IF a > 0 THEN
            LET S1 == [S EXCEPT !.loans[id].amountFunded = @ + a,
                                !.investments[id][lender] = @ + a]
                S2 == IF S1.investments[id][lender] - a = 0
                      THEN [S1 EXCEPT !.loanLenders[id] = Append(@, lender)]
                      ELSE S1
            IN  FundLoanActivate(Emit(S2, id, <<"LoanFunded", lender, a>>), f)
        ELSE FundLoanActivate(S, f)

\* Mutant of FundLoanRefund: the whole msg.value goes back to the sender,
\* yet the loan is credited with what was still needed.
FundLoanRefund_RefundsWholeValue(S, f, remainingNeeded) ==
    IF f.value > remainingNeeded THEN
        LET g == [f EXCEPT !.amountToFund = remainingNeeded,
                           !.remainingNeeded = remainingNeeded]
        IN  IF S.balance[Contract] < f.value THEN Revert(Failed(g), "TransferFailed")
            ELSE Await(S, g, "refund", f.sender, f.value)
    ELSE FundLoanCredit(S, [f EXCEPT !.amountToFund = f.value,
                                     !.remainingNeeded = remainingNeeded])

\* Lines 113-120: the excess over what is still needed goes back to the sender.
FundLoanRefund(S, f, remainingNeeded) ==
    IF f.value > remainingNeeded THEN
        LET excess == f.value - remainingNeeded
            g == [f EXCEPT !.amountToFund = remainingNeeded,
                           !.remainingNeeded = remainingNeeded]
        IN  IF S.balance[Contract] < excess THEN Revert(Failed(g), "TransferFailed")
            ELSE Await(S, g, "refund", f.sender, excess)
    ELSE FundLoanCredit(S, [f EXCEPT !.amountToFund = f.value,
                                     !.remainingNeeded = remainingNeeded])

\* Mutant of FundLoanRun: the existence of the loan is not checked.
FundLoanRun_NoExistenceCheck(S0, f) ==
    LET S == Pay(S0, f.sender, Contract, f.value)
        loan == S.loans[f.id]
    IN  IF loan.status # "Funding" THEN Revert(f, "IncorrectStatus")
        ELSE IF f.value = 0 THEN Revert(f, "InsufficientFunds")
        ELSE IF loan.amountFunded >= loan.amount THEN Revert(f, "AlreadyFullyFunded")
        ELSE FundLoanRefund(S, f, loan.amount - loan.amountFunded)

\* Lines 102-111: msg.value arrives with the call, then the checks.
FundLoanRun(S0, f) ==
    LET S == Pay(S0, f.sender, Contract, f.value)
        loan == S.loans[f.id]
    IN  IF loan.id = 0 THEN Revert(f, "LoanNotFound")
        ELSE IF loan.status # "Funding" THEN Revert(f, "IncorrectStatus")
        ELSE IF f.value = 0 THEN Revert(f, "InsufficientFunds")
        ELSE IF loan.amountFunded >= loan.amount THEN Revert(f, "AlreadyFullyFunded")
        ELSE FundLoanRefund(S, f, loan.amount - loan.amountFunded)

\* After the excess refund returned (line 119).
FundLoanAfterRefund(S, f, success) ==
    IF ~success THEN Revert(f, "TransferFailed") ELSE FundLoanCredit(S, f)

\* Mutant of FundLoanAfterDisburse: the result of the transfer is not checked.
FundLoanAfterDisburse_IgnoresFailure(S, f, success) ==
    Done(Emit(S, f.id, <<"LoanActivated">>), f)

\* After the disbursement returned (lines 144-146).
FundLoanAfterDisburse(S, f, success) ==
    IF ~success THEN Revert(f, "TransferFailed")
    ELSE Done(Emit(S, f.id, <<"LoanActivated">>), f)

\* -------------------------------------------------------------- repayLoan
\* Lines 164-165 (and 269-270): principal plus interest in basis points.
TotalRepaymentAmount(loan) ==
    LET interestAmount == (loan.amount * loan.interestRate) \div BPS
    IN  loan.amount + interestAmount

\* Line 186: a lender's share, proportional to the investment.
LenderShare(lenderInvestment, totalRepaymentAmount, amount) ==
    (lenderInvestment * totalRepaymentAmount) \div amount

\* Mutant of RepayLoanFinish: the repayment is announced but the loan is
\* left Active.
RepayLoanFinish_KeepsActive(S, f) ==
    IF ~f.distributionSuccess THEN Revert(f, "RepaymentFailed")
    ELSE Done(Emit(S, f.id, <<"LoanRepaid", f.sender, f.total>>), f)

\* Mutant of RepayLoanFinish: a failed distribution does not revert.
RepayLoanFinish_IgnoresFailure(S, f) ==
    Done(Emit([S EXCEPT !.loans[f.id].status = "Completed"], f.id,
              <<"LoanRepaid", f.sender, f.total>>), f)

\* Lines 197-203: the end of repayLoan.
RepayLoanFinish(S, f) ==
    IF ~f.distributionSuccess THEN Revert(f, "RepaymentFailed")
    ELSE Done(Emit([S EXCEPT !.loans[f.id].status = "Completed"], f.id,
                   <<"LoanRepaid", f.sender, f.total>>), f)

\* Lines 181-195: the payout loop, from lender f.i on, up to the next transfer.
RECURSIVE RepayLoanLoop(_, _)
RepayLoanLoop(S, f) ==
    IF f.i > Len(f.lenders) THEN RepayLoanFinish(S, f)
    ELSE
        LET lender == f.lenders[f.i]
            lenderInvestment == S.investments[f.id][lender]
            lenderShare == LenderShare(lenderInvestment, f.total, S.loans[f.id].amount)
        IN  IF S.balance[Contract] < lenderShare
            THEN RepayLoanLoop(S, [Failed(f) EXCEPT !.distributionSuccess = FALSE,
                                                    !.i = @ + 1])
            ELSE Await(S, f, "pay", lender, lenderShare)

\* Lines 177-179: the roster is copied to memory, then the loop starts.
RepayLoanDistribute(S, f) ==
    RepayLoanLoop(S, [f EXCEPT !.lenders = S.loanLenders[f.id], !.i = 1,
                               !.distributionSuccess = TRUE])

\* Mutant of RepayLoanCheckValue: the value is compared with the principal,
\* not with principal plus interest.
RepayLoanCheckValue_PrincipalOnly(S, f) ==
    IF f.value < S.loans[f.id].amount THEN Revert(f, "InsufficientRepaymentAmount")
    ELSE IF f.value > f.total THEN
        LET excessAmount == f.value - f.total IN
        IF S.balance[Contract] < excessAmount THEN Revert(Failed(f), "TransferFailed")
        ELSE Await(S, f, "refund", f.sender, excessAmount)
    ELSE RepayLoanDistribute(S, f)

\* Lines 167-175: the sufficiency check and the refund of the excess.
RepayLoanCheckValue(S, f) ==
    IF f.value < f.total THEN Revert(f, "InsufficientRepaymentAmount")
    ELSE IF f.value > f.total THEN
        LET excessAmount == f.value - f.total IN
        IF S.balance[Contract] < excessAmount THEN Revert(Failed(f), "TransferFailed")
        ELSE Await(S, f, "refund", f.sender, excessAmount)
    ELSE RepayLoanDistribute(S, f)

\* Mutant of RepayLoanRun: the status of the loan is not checked.
RepayLoanRun_NoStatusCheck(S0, f) ==
    LET S == Pay(S0, f.sender, Contract, f.value)
        loan == S.loans[f.id]
    IN  IF loan.id = 0 THEN Revert(f, "LoanNotFound")
        ELSE IF f.sender # loan.borrower THEN Revert(f, "NotBorrower")
        ELSE RepayLoanCheckValue(S, [f EXCEPT !.total = TotalRepaymentAmount(loan)])

\* Lines 155-165.
RepayLoanRun(S0, f) ==
    LET S == Pay(S0, f.sender, Contract, f.value)
        loan == S.loans[f.id]
    IN  IF loan.id = 0 THEN Revert(f, "LoanNotFound")
        ELSE IF loan.status # "Active" THEN Revert(f, "IncorrectStatus")
        ELSE IF f.sender # loan.borrower THEN Revert(f, "NotBorrower")
        ELSE RepayLoanCheckValue(S, [f EXCEPT !.total = TotalRepaymentAmount(loan)])

\* After the excess refund returned (line 174).
RepayLoanAfterRefund(S, f, success) ==
    IF ~success THEN Revert(f, "TransferFailed") ELSE RepayLoanDistribute(S, f)

\* After the transfer to lender f.i returned (lines 190-194).
RepayLoanAfterPay(S, f, success) ==
    IF ~success
    THEN RepayLoanLoop(S, [f EXCEPT !.distributionSuccess = FALSE, !.i = @ + 1])
    ELSE RepayLoanLoop(Emit(S, f.id, <<"LenderPaid", f.to, f.amt>>),
                       [f EXCEPT !.i = @ + 1])

\* ---------------------------------------------------- markLoanAsDefaulted
\* Mutant of MarkLoanAsDefaultedRun: the due date itself already counts as
\* overdue.
MarkLoanAsDefaultedRun_DueDateInclusive(S, f, t) ==
    LET loan == S.loans[f.id] IN
    IF loan.id = 0 THEN Revert(f, "LoanNotFound")
    ELSE IF loan.status # "Active" THEN Revert(f, "IncorrectStatus")
    ELSE IF t < loan.dueDate THEN Revert(f, "Loan is not yet due")
    ELSE Done(Emit([S EXCEPT !.loans[f.id].status = "Defaulted"],
                   f.id, <<"LoanDefaulted">>), f)

MarkLoanAsDefaultedRun(S, f, t) ==
    LET loan == S.loans[f.id] IN
    IF loan.id = 0 THEN Revert(f, "LoanNotFound")
    ELSE IF loan.status # "Active" THEN Revert(f, "IncorrectStatus")
    ELSE IF t <= loan.dueDate THEN Revert(f, "Loan is not yet due")
    ELSE Done(Emit([S EXCEPT !.loans[f.id].status = "Defaulted"], f.id,
                   <<"LoanDefaulted">>), f)

\* The suspended call continues with the transfer's result.
Resume(S, f0, success) ==
    LET f == IF success THEN Sent(f0) ELSE Failed(f0) IN
    IF f.op = "fundLoan" /\ f.pc = "refund" THEN FundLoanAfterRefund(S, f, success)
    ELSE IF f.op = "fundLoan" THEN FundLoanAfterDisburse(S, f, success)
    ELSE IF f.pc = "refund" THEN RepayLoanAfterRefund(S, f, success)
    ELSE RepayLoanAfterPay(S, f, success)

\* ------------------------------------------------------------ transitions
Top == stack[Len(stack)]

\* Who may call now: anyone when no transaction is running (a new
\* transaction), or the account whose code is running because it is
\* receiving a transfer (a call made from inside that transfer).
CanCall(sender) ==
    \/ stack = <<>>
    \/ /\ stack # <<>>
       /\ Len(stack) < MaxDepth
       /\ Top.pc \in AwaitPcs
       /\ Top.to = sender

Store(S) ==
    /\ loans' = S.loans
    /\ investments' = S.investments
    /\ loanLenders' = S.loanLenders
    /\ allLoanIds' = S.allLoanIds
    /\ loanIdCounter' = S.loanIdCounter
    /\ balance' = S.balance
    /\ events' = S.events
    /\ disbursed' = S.disbursed

\* A call starts: it runs to its first transfer or to its end.
Begin(r) ==
    /\ Store(r.st)
    /\ stack' = Append(stack, r.fr)
    /\ UNCHANGED <<now, offchain>>

\* The innermost call goes on to its next transfer or to its end.
Continue(r) ==
    /\ Store(r.st)
    /\ stack' = [stack EXCEPT ![Len(stack)] = r.fr]
    /\ UNCHANGED <<now, offchain>>

CreateLoan(sender, amount, interestRate, durationDays, purpose) ==
    /\ CanCall(sender)
    /\ loanIdCounter < MaxLoans
    /\ Begin(CreateLoanRun(State,
                [NewFrame("createLoan", 0, sender, 0, State)
                    EXCEPT !.args = <<amount, interestRate, durationDays, purpose>>],
                amount, interestRate, durationDays, purpose, now))

FundLoan(sender, loanId, value) ==
    /\ CanCall(sender)
    /\ Begin(FundLoanRun(State, NewFrame("fundLoan", loanId, sender, value, State)))

RepayLoan(sender, loanId, value) ==
    /\ CanCall(sender)
    /\ Begin(RepayLoanRun(State, NewFrame("repayLoan", loanId, sender, value, State)))

MarkLoanAsDefaulted(sender, loanId) ==
    /\ CanCall(sender)
    /\ Begin(MarkLoanAsDefaultedRun(State,
                NewFrame("markLoanAsDefaulted", loanId, sender, 0, State), now))

\* The recipient of the pending transfer returns normally.
Accept ==
    /\ stack # <<>>
    /\ Top.pc \in AwaitPcs
    /\ Continue(Resume(State, Top, TRUE))

\* The recipient of the pending transfer reverts: the transfer and whatever
\* the recipient did meanwhile are undone, and the call reports failure.
Reject ==
    /\ stack # <<>>
    /\ Top.pc \in AwaitPcs
    /\ Continue(Resume(Top.pre, Top, FALSE))

\* A finished call hands control back to its caller.
Return ==
    /\ stack # <<>>
    /\ Top.pc \in EndPcs
    /\ stack' = SubSeq(stack, 1, Len(stack) - 1)
    /\ UNCHANGED <<chain, now, offchain>>

\* Blocks are mined a day apart.
Tick ==
    /\ stack = <<>>
    /\ now < MaxTime * DAY
    /\ now' = now + DAY
    /\ UNCHANGED <<chain, stack, offchain>>

Init ==
    /\ loans = InitState.loans
    /\ investments = InitState.investments
    /\ loanLenders = InitState.loanLenders
    /\ allLoanIds = InitState.allLoanIds
    /\ loanIdCounter = InitState.loanIdCounter
    /\ balance = InitState.balance
    /\ events = InitState.events
    /\ disbursed = InitState.disbursed
    /\ now = 0
    /\ stack = <<>>
    /\ InitOffchain

Next ==
    \/ \E s \in Addr, a \in Amounts, r \in Rates, d \in DurationDays, p \in Purposes :
            CreateLoan(s, a, r, d, p)
    \/ \E s \in Addr, id \in Ids, v \in Values : FundLoan(s, id, v)
    \/ \E s \in Addr, id \in Ids, v \in Values : RepayLoan(s, id, v)
    \/ \E s \in Addr, id \in Ids : MarkLoanAsDefaulted(s, id)
    \/ Accept
    \/ Reject
    \/ Return
    \/ Tick

Spec == Init /\ [][Next]_vars

\* ------------------------------------------------ several loans side by side
\* The same contract with room for MoreLoans loans; to keep the state space
\* small the callers pass amounts of at most 1 wei, values of 1 or 2 wei and
\* only ids that createLoan can assign.
IdsMore == 0..MoreLoans
SmallAmounts == {0, 1}
SmallValues == {1, 2}
CreatedIds == 1..MoreLoans             \* the ids createLoan can assign

CreateLoanMore(sender, amount, interestRate, durationDays, purpose) ==
    /\ CanCall(sender)
    /\ loanIdCounter < MoreLoans
    /\ Begin(CreateLoanRun(State,
                [NewFrame("createLoan", 0, sender, 0, State)
                    EXCEPT !.args = <<amount, interestRate, durationDays, purpose>>],
                amount, interestRate, durationDays, purpose, now))

InitMore ==
    /\ loans = [i \in IdsMore |-> NoLoan]
    /\ investments = [i \in IdsMore |-> [a \in Addr |-> 0]]
    /\ loanLenders = [i \in IdsMore |-> <<>>]
    /\ allLoanIds = <<>>
    /\ loanIdCounter = 0
    /\ balance = [a \in Addr \cup {Contract} |-> 0]
    /\ events = [i \in IdsMore |-> <<>>]
    /\ disbursed = [i \in IdsMore |-> <<>>]
    /\ now = 0
    /\ stack = <<>>
    /\ InitOffchain

NextMore ==
    \/ \E s \in Addr, a \in SmallAmounts, p \in Purposes : CreateLoanMore(s, a, 5000, 1, p)
    \/ \E s \in Addr, id \in CreatedIds, v \in SmallValues : FundLoan(s, id, v)
    \/ \E s \in Addr, id \in CreatedIds, v \in SmallValues : RepayLoan(s, id, v)
    \/ \E s \in Addr, id \in CreatedIds : MarkLoanAsDefaulted(s, id)
    \/ Accept
    \/ Reject
    \/ Return
    \/ Tick

SpecMore == InitMore /\ [][NextMore]_vars

\* ================================================================ claims
Min(a, b) == IF a < b THEN a ELSE b

RECURSIVE SumOver(_, _)
SumOver(fn, S) ==
    IF S = {} THEN 0
    ELSE LET x == CHOOSE y \in S : TRUE IN fn[x] + SumOver(fn, S \ {x})

\* The amounts of the transfers of one kind among a call's completed transfers.
RECURSIVE AmountsOf(_, _)
AmountsOf(sent, kind) ==
    IF sent = <<>> THEN <<>>
    ELSE IF Head(sent)[1] = kind THEN <<Head(sent)[3]>> \o AmountsOf(Tail(sent), kind)
    ELSE AmountsOf(Tail(sent), kind)

RECURSIVE SumSeq(_)
SumSeq(q) == IF q = <<>> THEN 0 ELSE Head(q) + SumSeq(Tail(q))

\* The innermost call has just ended: the state is the one it leaves behind,
\* f.snap the one it started from.
Ended(op) == stack # <<>> /\ Top.op = op /\ Top.pc \in EndPcs
Succeeded(op) == stack # <<>> /\ Top.op = op /\ Top.pc = "done"
Rejected(op) == stack # <<>> /\ Top.op = op /\ Top.pc = "reverted"
Exists(S, id) == S.loans[id].id # 0

\* C1: between transactions every loan has 0 <= amountFunded <= amount, and
\* the investments of all lenders in it add up to its amountFunded.
C1_FundedWithinAmountAndSummed ==
    stack = <<>> =>
        \A id \in Ids :
            /\ 0 <= loans[id].amountFunded
            /\ loans[id].amountFunded <= loans[id].amount
            /\ SumOver(investments[id], Addr) = loans[id].amountFunded

\* C2: while a fundLoan or repayLoan call is suspended in a transfer with
\* its writes to the loan still to come (the excess refund of fundLoan, the
\* refund and the payouts of repayLoan), no other call changes that loan:
\* the record, the investments and the roster stay as the call left them.
C2_OperationsAtomicPerLoan ==
    \A k \in 1..Len(stack) :
        stack[k].pc \in {"refund", "pay"} =>
            /\ loans[stack[k].id] = stack[k].pre.loans[stack[k].id]
            /\ investments[stack[k].id] = stack[k].pre.investments[stack[k].id]
            /\ loanLenders[stack[k].id] = stack[k].pre.loanLenders[stack[k].id]

\* C3: a successful fundLoan with value v on a loan that needed `remaining`
\* leaves amountFunded and the caller's investment higher by min(v, remaining),
\* has sent v - min(v, remaining) back to the caller, and has kept nothing
\* beyond the credited amount in the contract.
C3_FundCreditsMinAndRefundsExcess ==
    Succeeded("fundLoan") =>
        LET f == Top
            before == f.snap.loans[f.id]
            remaining == before.amount - before.amountFunded
            credit == Min(f.value, remaining)
        IN  /\ loans[f.id].amountFunded - before.amountFunded = credit
            /\ investments[f.id][f.sender] - f.snap.investments[f.id][f.sender] = credit
            /\ AmountsOf(f.sent, "refund") =
                    (IF f.value > credit THEN <<f.value - credit>> ELSE <<>>)
            /\ balance[Contract] + SumSeq(AmountsOf(f.sent, "disburse"))
                    - f.snap.balance[Contract] = credit

\* C4: in every state a loan funded to exactly its amount is no longer
\* Funding and its borrower has been sent exactly the amount, a loan funded
\* below its amount is still Funding and its borrower has been sent nothing,
\* and no loan's principal is ever sent out twice; a fundLoan call that ends
\* with the loan funded to exactly its amount made that transfer itself.
C4_ActivationPaysBorrowerOnce ==
    /\ \A id \in Ids :
        Exists(State, id) =>
            /\ Len(disbursed[id]) <= 1
            /\ loans[id].amountFunded < loans[id].amount =>
                    loans[id].status = "Funding" /\ disbursed[id] = <<>>
            /\ loans[id].amountFunded = loans[id].amount =>
                    /\ loans[id].status # "Funding"
                    /\ disbursed[id] = << <<loans[id].borrower, loans[id].amount>> >>
    /\ Succeeded("fundLoan") =>
            /\ loans[Top.id].amountFunded = loans[Top.id].amount =>
                    /\ Top.snap.disbursed[Top.id] = <<>>
                    /\ AmountsOf(Top.sent, "disburse") = <<loans[Top.id].amount>>
            /\ loans[Top.id].amountFunded < loans[Top.id].amount =>
                    AmountsOf(Top.sent, "disburse") = <<>>

\* A fundLoan call by a second lender has just completed the funding.
C4_Witness ==
    /\ Succeeded("fundLoan")
    /\ loans[Top.id].status = "Active"
    /\ Len(loanLenders[Top.id]) = 2
    /\ Top.snap.loans[Top.id].amountFunded > 0
    /\ balance[loans[Top.id].borrower] - Top.snap.balance[loans[Top.id].borrower]
            = loans[Top.id].amount

\* C5: a successful repayLoan with value v >= totalDue has refunded exactly
\* v - totalDue to the borrower, has paid each roster lender
\* investment * totalDue / amount, and the shares add up to at most totalDue
\* and at least totalDue - (number of lenders - 1).
C5_RepaymentSharesBounded ==
    Succeeded("repayLoan") =>
        LET f == Top
            loan == f.snap.loans[f.id]
            totalDue == loan.amount + (loan.amount * loan.interestRate) \div 10000
            roster == f.snap.loanLenders[f.id]
            shares == AmountsOf(f.sent, "pay")
        IN  /\ AmountsOf(f.sent, "refund") =
                    (IF f.value > totalDue THEN <<f.value - totalDue>> ELSE <<>>)
            /\ Len(shares) = Len(roster)
            /\ \A k \in 1..Len(roster) :
                    shares[k] = (f.snap.investments[f.id][roster[k]] * totalDue)
                                    \div loan.amount
            /\ SumSeq(shares) <= totalDue
            /\ SumSeq(shares) >= totalDue - (Len(roster) - 1)

\* C6: a repayLoan call in which a transfer failed has reverted: the loan is
\* still Active, every balance (each lender's, the borrower's, the
\* contract's) and the whole storage are as before the call.
C6_RepayAllOrNothing ==
    (Ended("repayLoan") /\ Top.failed) =>
        /\ Top.pc = "reverted"
        /\ loans[Top.id].status = "Active"
        /\ \A a \in Addr \cup {Contract} : balance[a] = Top.snap.balance[a]
        /\ State = Top.snap

\* A repayLoan call failed although its transfer to an earlier lender had
\* succeeded.
C6_Witness ==
    /\ Rejected("repayLoan")
    /\ Len(stack) = 1
    /\ Top.err = "RepaymentFailed"
    /\ Len(loanLenders[Top.id]) = 2
    /\ AmountsOf(Top.sent, "pay") # <<>>

\* C7: a fundLoan call in which the excess refund or the disbursement failed
\* has reverted with TransferFailed: amountFunded, status, the caller's
\* investment, the roster and every balance are as before the call.
C7_FundAllOrNothing ==
    (Ended("fundLoan") /\ Top.failed) =>
        /\ Top.pc = "reverted"
        /\ Top.err = "TransferFailed"
        /\ loans[Top.id] = Top.snap.loans[Top.id]
        /\ investments[Top.id] = Top.snap.investments[Top.id]
        /\ loanLenders[Top.id] = Top.snap.loanLenders[Top.id]
        /\ \A a \in Addr \cup {Contract} : balance[a] = Top.snap.balance[a]
        /\ State = Top.snap

\* A fully-funding fundLoan call failed because the borrower refused the
\* disbursement, after an earlier lender had contributed.
C7_Witness ==
    /\ Rejected("fundLoan")
    /\ Top.failed
    /\ Top.value = loans[Top.id].amount - loans[Top.id].amountFunded
    /\ loans[Top.id].amountFunded > 0
    /\ Top.sender # loans[Top.id].borrower

\* C8: a repayLoan call by the borrower of an Active loan with a value below
\* amount + amount * interestRate / 10000 is rejected as insufficient: the
\* loan stays Active, nobody is paid, and nothing of the call remains.
C8_UnderpaymentRejected ==
    Ended("repayLoan") =>
        LET f == Top
            loan == f.snap.loans[f.id]
            totalDue == loan.amount + (loan.amount * loan.interestRate) \div 10000
        IN  ( /\ Exists(f.snap, f.id)
              /\ loan.status = "Active"
              /\ f.sender = loan.borrower
              /\ f.value < totalDue ) =>
                /\ f.pc = "reverted"
                /\ f.err = "InsufficientRepaymentAmount"
                /\ f.sent = <<>>
                /\ loans[f.id].status = "Active"
                /\ State = f.snap

\* The borrower offered the principal without the interest and was rejected.
C8_Witness ==
    /\ Rejected("repayLoan")
    /\ Len(stack) = 1
    /\ Top.err = "InsufficientRepaymentAmount"
    /\ Top.value = loans[Top.id].amount
    /\ loans[Top.id].status = "Active"

\* C9: repayLoan succeeds only on an existing Active loan called by its
\* borrower; on a loan in another status it is rejected with IncorrectStatus,
\* from another caller it is rejected, and a rejected call moves no value
\* and leaves the storage as it was.
C9_RepayPreconditions ==
    Ended("repayLoan") =>
        LET f == Top
            loan == f.snap.loans[f.id]
        IN  /\ f.pc = "done" =>
                    /\ Exists(f.snap, f.id)
                    /\ loan.status = "Active"
                    /\ f.sender = loan.borrower
            /\ ~Exists(f.snap, f.id) => f.pc = "reverted" /\ f.err = "LoanNotFound"
            /\ (Exists(f.snap, f.id) /\ loan.status # "Active") =>
                    f.pc = "reverted" /\ f.err = "IncorrectStatus"
            /\ (Exists(f.snap, f.id) /\ f.sender # loan.borrower) => f.pc = "reverted"
            /\ f.pc = "reverted" =>
                    /\ State = f.snap
                    /\ \A a \in Addr \cup {Contract} : balance[a] = f.snap.balance[a]

\* repayLoan with value attached was rejected on a loan still in Funding.
C9_Witness ==
    /\ Rejected("repayLoan")
    /\ Len(stack) = 1
    /\ Top.err = "IncorrectStatus"
    /\ loans[Top.id].status = "Funding"
    /\ Top.sender = loans[Top.id].borrower
    /\ Top.value > 0

\* A step in which nothing is rolled back: no recipient refuses a transfer
\* and no call reverts.
Forward ==
    /\ ~Reject
    /\ ~(stack' # <<>> /\ stack'[Len(stack')].pc = "reverted")

StatusMoves ==
    {<<"Funding", "Active">>, <<"Active", "Completed">>, <<"Active", "Defaulted">>}

\* C10: a loan's status only moves Funding -> Active, Active -> Completed
\* or Active -> Defaulted; Completed and Defaulted are final.
C10_StatusForwardOnly ==
    [][Forward =>
        \A id \in Ids :
            Exists(State, id) =>
                \/ loans'[id].status = loans[id].status
                \/ <<loans[id].status, loans'[id].status>> \in StatusMoves]_vars

\* An event of the given name is in the loan's log.
HasEvent(id, name) == \E k \in 1..Len(events[id]) : events[id][k][1] = name
Repaid(id) == HasEvent(id, "LoanRepaid")
MarkedDefaulted(id) == HasEvent(id, "LoanDefaulted")
\* The loan reached its amount and the principal left for the borrower.
Activated(id) == disbursed[id] # <<>>

ActivatedBy(f) ==
    /\ f.op = "fundLoan" /\ f.pc = "done"
    /\ f.snap.disbursed[f.id] = <<>>
    /\ disbursed[f.id] # <<>>

\* C12: when a fundLoan call activates a loan, the loan's dueDate is the
\* time of that call plus the loan's duration, so the loan is not marked
\* defaulted while no more than its duration has passed since then (the
\* clock does not advance within a transaction).
C12_DueDateFromFunding ==
    (stack # <<>> /\ ActivatedBy(Top)) =>
        /\ loans[Top.id].dueDate = now + loans[Top.id].duration
        /\ loans[Top.id].status # "Defaulted"

\* C13: markLoanAsDefaulted on an Active loan reverts and leaves the loan
\* Active when block.timestamp <= dueDate, and succeeds and sets the status
\* to Defaulted when block.timestamp > dueDate; on a loan that is not Active
\* it always reverts.
C13_DefaultOnlyAfterDueDate ==
    Ended("markLoanAsDefaulted") =>
        LET id == Top.id
            before == Top.snap.loans[id]
        IN  /\ (before.status = "Active" /\ Exists(Top.snap, id) /\ now <= before.dueDate)
                => (Top.pc = "reverted" /\ State = Top.snap /\ loans[id].status = "Active")
            /\ (before.status = "Active" /\ Exists(Top.snap, id) /\ now > before.dueDate)
                => (/\ Top.pc = "done"
                    /\ loans = [Top.snap.loans EXCEPT ![id].status = "Defaulted"])
            /\ (before.status # "Active" \/ ~Exists(Top.snap, id))
                => (Top.pc = "reverted" /\ State = Top.snap)

\* The call arrives exactly at the due date of an Active loan and is refused.
C13_Witness ==
    /\ Rejected("markLoanAsDefaulted")
    /\ Len(stack) = 1
    /\ loans[Top.id].status = "Active"
    /\ now = loans[Top.id].dueDate
    /\ Top.err = "Loan is not yet due"

\* The record a single fundLoan of the full amount leaves of a loan.
FullyFunded(loan) == [loan EXCEPT !.status = "Active", !.amountFunded = loan.amount]

\* The amounts of the events of one name in a loan's log.
RECURSIVE EventAmounts(_, _)
EventAmounts(log, name) ==
    IF log = <<>> THEN <<>>
    ELSE IF Head(log)[1] = name THEN <<Head(log)[3]>> \o EventAmounts(Tail(log), name)
    ELSE EventAmounts(Tail(log), name)

\* C14: whenever the values credited to a loan by fundLoan calls add up to
\* exactly its amount, however they were split, the loan is what one
\* fundLoan of the full amount makes of it: activated, amountFunded ==
\* amount, the borrower paid amount exactly once; the call that completes
\* the funding leaves the record FullyFunded gives and releases the whole
\* escrow of the loan.
C14_SplitFundingSameAsSingle ==
    \A id \in Ids :
        (Exists(State, id)
         /\ SumSeq(EventAmounts(events[id], "LoanFunded")) = loans[id].amount) =>
            /\ loans[id].amountFunded = loans[id].amount
            /\ loans[id].status # "Funding"
            /\ disbursed[id] = << <<loans[id].borrower, loans[id].amount>> >>
            /\ SumOver(investments[id], Addr) = loans[id].amount
            /\ (stack # <<>> /\ ActivatedBy(Top) /\ Top.id = id
                /\ loans[id].status = "Active") =>
                    /\ loans[id] = FullyFunded(Top.snap.loans[id])
                    /\ (\A j \in Ids \ {id} : events[j] = Top.snap.events[j]) =>
                           balance[Contract] =
                               Top.snap.balance[Contract] - Top.snap.loans[id].amountFunded

\* A loan of amount 2 completed by a second contribution of 1.
C14_Witness ==
    /\ stack # <<>> /\ ActivatedBy(Top)
    /\ Top.snap.loans[Top.id].amountFunded = 1
    /\ Top.value = 1
    /\ loans[Top.id].amount = 2
    /\ loans[Top.id].status = "Active"
    /\ Len(EventAmounts(events[Top.id], "LoanFunded")) = 2

\* The limits the claim refers to, as the repository's requestLoan variant
\* of the contract configures them.
MAX_INTEREST_RATE_BPS == 5000
MIN_DURATION_SECONDS == 1 * DAY

\* C15: createLoan reverts, writing nothing and consuming no id, whenever
\* amount is 0, the duration is below the minimum, the interest rate is 0
\* or above the maximum, or the purpose is empty; a successful createLoan
\* leaves a new loan in Funding status with amountFunded 0 and the caller
\* as borrower.
C15_CreationValidated ==
    Ended("createLoan") =>
        LET amount == Top.args[1]
            interestRate == Top.args[2]
            durationDays == Top.args[3]
            purpose == Top.args[4]
            invalid == \/ amount = 0
                       \/ durationDays * DAY < MIN_DURATION_SECONDS
                       \/ interestRate = 0
                       \/ interestRate > MAX_INTEREST_RATE_BPS
                       \/ purpose = ""
        IN  /\ invalid => (Top.pc = "reverted" /\ State = Top.snap)
            /\ Top.pc = "done" =>
                   /\ loans[Top.id].status = "Funding"
                   /\ loans[Top.id].amountFunded = 0
                   /\ loans[Top.id].borrower = Top.sender

NoDuplicates(q) == \A i, j \in 1..Len(q) : q[i] = q[j] => i = j
IsPrefix(p, q) == Len(p) <= Len(q) /\ \A i \in 1..Len(p) : p[i] = q[i]
InRoster(a, q) == \E i \in 1..Len(q) : q[i] = a

\* C17: every loan's lender roster holds no address twice and holds an
\* address if and only if that address's investment in the loan is greater
\* than zero; and it only grows at its end: from the state any call in
\* progress or returned started from, each roster has only been extended.
C17_RosterDistinctAppendOnly ==
    /\ \A id \in Ids :
        /\ NoDuplicates(loanLenders[id])
        /\ \A a \in Addr : InRoster(a, loanLenders[id]) <=> investments[id][a] > 0
    /\ \A k \in 1..Len(stack) :
        stack[k].pc # "reverted" =>
            \A id \in Ids : IsPrefix(stack[k].snap.loanLenders[id], loanLenders[id])

\* A lender already on the roster contributes again.
C17_Witness ==
    /\ Succeeded("fundLoan")
    /\ Top.snap.investments[Top.id][Top.sender] > 0
    /\ investments[Top.id][Top.sender] > Top.snap.investments[Top.id][Top.sender]
    /\ loanLenders[Top.id] = <<Top.sender>>

\* What a completed repayment left in the contract: the rounding remainder
\* of the lenders' shares.
RepaymentDust(log) ==
    SumSeq(EventAmounts(log, "LoanRepaid")) - SumSeq(EventAmounts(log, "LenderPaid"))

\* What the contract is to hold for a loan on account of its funding.
Custody(id) == IF loans[id].status = "Funding" THEN loans[id].amountFunded ELSE 0

\* C18: between transactions the contract holds, on account of funding,
\* amountFunded (the sum of the lenders' investments) for every loan in
\* Funding status and nothing for a loan that is Active, Completed or
\* Defaulted: its balance is the custody of the Funding loans plus what
\* repayments left behind.
C18_CustodyEqualsOpenFunding ==
    stack = <<>> =>
        /\ \A id \in Ids :
               loans[id].status = "Funding" =>
                   loans[id].amountFunded = SumOver(investments[id], Addr)
        /\ balance[Contract] =
               SumOver([id \in Ids |-> Custody(id) + RepaymentDust(events[id])], Ids)

\* The event names of a log, in order.
Names(log) == [k \in 1..Len(log) |-> log[k][1]]
CountOf(q, x) == Cardinality({k \in 1..Len(q) : q[k] = x})
\* Every occurrence of x in q precedes every occurrence of y.
AllBefore(q, x, y) == \A i, j \in 1..Len(q) : (q[i] = x /\ q[j] = y) => i < j

\* C19: between transactions the log of every loan is one LoanCreated, then
\* the LoanFunded events, then at most one LoanActivated (exactly one once
\* the loan has left Funding), then either one LenderPaid per roster lender
\* followed by one LoanRepaid, or one LoanDefaulted, never both; and a call
\* that reverts leaves the log as it was.
C19_EventsFollowTransitions ==
    /\ stack = <<>> =>
        \A id \in Ids :
            LET q == Names(events[id]) IN
            Exists(State, id) =>
                /\ CountOf(q, "LoanCreated") = 1 /\ q[1] = "LoanCreated"
                /\ AllBefore(q, "LoanFunded", "LoanActivated")
                /\ CountOf(q, "LoanActivated")
                       = (IF loans[id].status = "Funding" THEN 0 ELSE 1)
                /\ AllBefore(q, "LoanActivated", "LenderPaid")
                /\ AllBefore(q, "LoanActivated", "LoanDefaulted")
                /\ AllBefore(q, "LenderPaid", "LoanRepaid")
                /\ CountOf(q, "LoanRepaid")
                       = (IF loans[id].status = "Completed" THEN 1 ELSE 0)
                /\ CountOf(q, "LenderPaid")
                       = (IF loans[id].status = "Completed" THEN Len(loanLenders[id]) ELSE 0)
                /\ CountOf(q, "LoanDefaulted")
                       = (IF loans[id].status = "Defaulted" THEN 1 ELSE 0)
                /\ ~(Repaid(id) /\ MarkedDefaulted(id))
    /\ (stack # <<>> /\ Top.pc = "reverted") => events = Top.snap.events

\* Lines 243-245: getAllLoanIds returns the id list.
GetAllLoanIds(S) == S.allLoanIds

\* Successful creations so far: the LoanCreated events in the log.
Creations == Cardinality({id \in IdsMore : HasEvent(id, "LoanCreated")})

\* C16: the list getAllLoanIds returns holds one id per successful
\* creation, distinct and strictly increasing; an id is in it exactly when
\* its loan record exists, and the record carries that id; a successful
\* createLoan appends an id greater than every id before it; and whatever
\* call is in progress or has returned, no id and no record it started
\* with has gone.
C16_IdsUniqueIncreasingKept ==
    LET ids == GetAllLoanIds(State) IN
    /\ Len(ids) = Creations
    /\ \A i, j \in 1..Len(ids) : i < j => ids[i] < ids[j]
    /\ \A id \in IdsMore : Exists(State, id) <=> InRoster(id, ids)
    /\ \A id \in IdsMore : Exists(State, id) => loans[id].id = id
    /\ Succeeded("createLoan") =>
           /\ ids = Append(GetAllLoanIds(Top.snap), Top.id)
           /\ \A k \in 1..Len(GetAllLoanIds(Top.snap)) : GetAllLoanIds(Top.snap)[k] < Top.id
           /\ ~Exists(Top.snap, Top.id)
    /\ \A k \in 1..Len(stack) :
           stack[k].pc # "reverted" =>
               /\ IsPrefix(GetAllLoanIds(stack[k].snap), ids)
               /\ \A id \in IdsMore : Exists(stack[k].snap, id) => Exists(State, id)

\* The second loan has just been created while the first, already
\* completed, is still listed.
C16_Witness ==
    /\ Succeeded("createLoan")
    /\ GetAllLoanIds(State) = <<1, 2>>
    /\ loans[1].status = "Completed"
    /\ loans[2].status = "Funding"

\* The fields of a loan that createLoan fixes.
CreationFields(loan) ==
    <<loan.id, loan.borrower, loan.amount, loan.interestRate, loan.duration, loan.purpose>>

\* The loan the invocation that runs in this step is addressed to (for
\* createLoan the loan it creates); 0, which is no loan, when none runs.
Addressed ==
    IF Len(stack') > Len(stack) THEN stack'[Len(stack')].id
    ELSE IF Len(stack') = Len(stack) /\ stack # <<>> THEN Top.id
    ELSE 0

\* C20: in every step that is not a rollback, an existing loan keeps its
\* id, borrower, amount, interestRate, duration and purpose, and every loan
\* other than the one the running invocation is addressed to keeps its
\* record, its investments and its roster.
C20_CreationFieldsAndOtherLoansKept ==
    [][Forward =>
        \A id \in IdsMore :
            /\ Exists(State, id) =>
                   CreationFields(loans'[id]) = CreationFields(loans[id])
            /\ id # Addressed =>
                   /\ loans'[id] = loans[id]
                   /\ investments'[id] = investments[id]
                   /\ loanLenders'[id] = loanLenders[id]]_vars

\* A repayment of loan 2 has completed while loan 1, funded by another
\* lender, is Active and untouched.
C20_Witness ==
    /\ Succeeded("repayLoan") /\ Top.id = 2
    /\ loans[2].status = "Completed"
    /\ loans[1].status = "Active"
    /\ loans[1] = Top.snap.loans[1]
    /\ loanLenders[1] # loanLenders[2]

\* ------------------------------------------------------------------ views
\* A view call either returns a value or reverts with an error.
Returns(v) == [ok |-> TRUE, value |-> v, err |-> ""]
Reverts(e) == [ok |-> FALSE, value |-> 0, err |-> e]

\* Lines 234-237.
GetLoanDetails(S, loanId) ==
    IF S.loans[loanId].id = 0 THEN Reverts("LoanNotFound") ELSE Returns(S.loans[loanId])

\* Lines 253-258.
GetLenderInvestment(S, loanId, lender) ==
    IF S.loans[loanId].id = 0 THEN Reverts("LoanNotFound")
    ELSE Returns(S.investments[loanId][lender])

\* Lines 265-271.
CalculateRepaymentAmount(S, loanId) ==
    LET loan == S.loans[loanId] IN
    IF loan.id = 0 THEN Reverts("LoanNotFound")
    ELSE LET interestAmount == (loan.amount * loan.interestRate) \div BPS
         IN  Returns(loan.amount + interestAmount)

LoanOps == {"fundLoan", "repayLoan", "markLoanAsDefaulted"}

\* C22: for a loan id that was never created (0 included) getLoanDetails,
\* getLenderInvestment and calculateRepaymentAmount revert with
\* LoanNotFound (and return for an id that was created), and a fundLoan,
\* repayLoan or markLoanAsDefaulted addressed to it reverts with
\* LoanNotFound and leaves storage and all balances, the caller's attached
\* value included, as they were.
C22_UnknownLoanNotFound ==
    /\ \A id \in Ids :
        LET missing == ~Exists(State, id) IN
        /\ GetLoanDetails(State, id).ok = ~missing
        /\ CalculateRepaymentAmount(State, id).ok = ~missing
        /\ \A a \in Addr : GetLenderInvestment(State, id, a).ok = ~missing
        /\ missing =>
            /\ GetLoanDetails(State, id).err = "LoanNotFound"
            /\ CalculateRepaymentAmount(State, id).err = "LoanNotFound"
            /\ \A a \in Addr : GetLenderInvestment(State, id, a).err = "LoanNotFound"
    /\ (stack # <<>> /\ Top.op \in LoanOps /\ ~Exists(Top.snap, Top.id)) =>
        /\ Top.pc = "reverted"
        /\ Top.err = "LoanNotFound"
        /\ State = Top.snap

\* A fundLoan carrying value for an id that no createLoan has assigned yet.
C22_Witness ==
    /\ Rejected("fundLoan")
    /\ Top.value > 0
    /\ ~Exists(State, Top.id)
    /\ Top.err = "LoanNotFound"
    /\ balance[Top.sender] = Top.snap.balance[Top.sender]

\* ------------------------------------------------- client: getPlatformStats
\* getLoans (unnamed/part_014 lines 799-923), as far as the statistics use
\* it: the status of every listed loan, by the switch at lines 843-859.
StatusName(status) ==
    CASE status = "Funding" -> "funding"
      [] status = "Active" -> "active"
      [] status = "Completed" -> "completed"
      [] status = "Defaulted" -> "defaulted"

GetLoans(S) == [k \in 1..Len(S.allLoanIds) |-> StatusName(S.loans[S.allLoanIds[k]].status)]

\* A JavaScript number that is a quotient, kept exact as numerator and
\* denominator.
Ratio(n, d) == [num |-> n, den |-> d]
SameNumber(x, y) == x.num * y.den = y.num * x.den

\* getPlatformStats, lines 1299-1375: the loan counts and the success rate.
GetPlatformStats(S) ==
    LET loans_ == GetLoans(S) IN
    IF Len(loans_) = 0
    THEN [totalLoans |-> 0, completedLoans |-> 0, defaultedLoans |-> 0,
          successRate |-> Ratio(0, 1)]
    ELSE LET completedLoans == Cardinality({k \in 1..Len(loans_) : loans_[k] = "completed"})
             defaultedLoans == Cardinality({k \in 1..Len(loans_) : loans_[k] = "defaulted"})
             successRate == IF completedLoans + defaultedLoans = 0
                            THEN Ratio(100, 1)
                            ELSE Ratio(completedLoans * 100, completedLoans + defaultedLoans)
         IN  [totalLoans |-> Len(loans_), completedLoans |-> completedLoans,
              defaultedLoans |-> defaultedLoans, successRate |-> successRate]

Count(S, status) == Cardinality({id \in DOMAIN S.loans : Exists(S, id) /\ S.loans[id].status = status})

\* C23: getPlatformStats reports a success rate of 100 whenever no loan is
\* Completed or Defaulted, the case of no loans at all included, and
\* completed / (completed + defaulted) * 100 otherwise; the denominator of
\* what it computes is never zero.
C23_SuccessRate ==
    LET stats == GetPlatformStats(State)
        completed == Count(State, "Completed")
        defaulted == Count(State, "Defaulted")
    IN  /\ stats.successRate.den # 0
        /\ completed + defaulted = 0 => SameNumber(stats.successRate, Ratio(100, 1))
        /\ completed + defaulted # 0 =>
               SameNumber(stats.successRate, Ratio(completed * 100, completed + defaulted))

\* C28: a repayLoan by the borrower of an Active loan with at least the
\* total due attached succeeds and completes the loan whatever the lenders'
\* accounts do with their shares; the borrower, who is not one of the
\* lenders here, can only make it fail by refusing their own excess refund.
C28_RepaymentCannotBeBlocked ==
    (/\ Ended("repayLoan")
     /\ Exists(Top.snap, Top.id)
     /\ Top.snap.loans[Top.id].status = "Active"
     /\ Top.sender = Top.snap.loans[Top.id].borrower
     /\ ~InRoster(Top.sender, Top.snap.loanLenders[Top.id])
     /\ Top.value >= TotalRepaymentAmount(Top.snap.loans[Top.id])) =>
        \/ Top.pc = "done" /\ loans[Top.id].status = "Completed"
        \/ Top.err = "TransferFailed"

\* ------------------------------------------------- recipients that do not re-enter
\* The contract with two loans and recipients that accept or refuse a
\* transfer but never call back: a call starts only when no call is in
\* progress.
NextFlat ==
    \/ \E s \in Addr, a \in Amounts, p \in Purposes :
            stack = <<>> /\ CreateLoanMore(s, a, 5000, 1, p)
    \/ \E s \in Addr, id \in CreatedIds, v \in Values : stack = <<>> /\ FundLoan(s, id, v)
    \/ \E s \in Addr, id \in CreatedIds, v \in Values : stack = <<>> /\ RepayLoan(s, id, v)
    \/ \E s \in Addr, id \in CreatedIds : stack = <<>> /\ MarkLoanAsDefaulted(s, id)
    \/ Accept
    \/ Reject
    \/ Return
    \/ Tick

SpecFlat == InitMore /\ [][NextFlat]_vars

\* The sum of amountFunded over the loans in Funding status.
OpenFunding(S) ==
    SumOver([id \in DOMAIN S.loans |->
                IF S.loans[id].status = "Funding" THEN S.loans[id].amountFunded ELSE 0],
            DOMAIN S.loans)

\* What the contract holds beyond the open funding.
Surplus(S) == S.balance[Contract] - OpenFunding(S)

\* C29: with recipients that do not re-enter, the contract's balance is
\* never below the sum of amountFunded over the loans in Funding status,
\* and no call lowers the surplus over that sum: when a call has ended the
\* surplus is at least what it was when the call started.
C29_SolventAndDustLocked ==
    /\ Surplus(State) >= 0
    /\ (stack # <<>> /\ Top.pc \in EndPcs) => Surplus(State) >= Surplus(Top.snap)

\* A repayment of 3 wei for a loan of 2 wei funded 1 + 1 has completed
\* while the other loan is partly funded: each lender got 1, one wei of
\* dust stays in the contract on top of the other loan's funding.
C29_Witness ==
    /\ Succeeded("repayLoan")
    /\ loans[Top.id].status = "Completed"
    /\ Surplus(State) = Surplus(Top.snap) + 1
    /\ Len(AmountsOf(Top.sent, "pay")) = 2
    /\ OpenFunding(State) > 0
    /\ balance[Contract] = OpenFunding(State) + 1

\* ------------------------------------------------- the client's repayment value
\* The position of a status in enum LoanStatus, as the client receives it.
StatusNumber(status) ==
    CASE status = "Funding" -> 0
      [] status = "Active" -> 1
      [] status = "Completed" -> 2
      [] status = "Defaulted" -> 3

\* The client's getLoanDetails: the contract's view, its numbers as bigint
\* and its status as a number; a contract error is thrown on.
ClientGetLoanDetails(S, loanId) ==
    LET loanData == GetLoanDetails(S, loanId) IN
    IF ~loanData.ok THEN Reverts(loanData.err)
    ELSE Returns([loanData.value EXCEPT !.status = StatusNumber(@)])

\* Mutant of ClientRepayValue: the rate is taken as a percentage.
ClientRepayValue_RateInPercent(loan) ==
    LET interestAmount == (loan.amount * loan.interestRate) \div 100
    IN  loan.amount + interestAmount

\* The client's repayLoan: the value it attaches to the transaction,
\* computed in bigint arithmetic from the loan it read.
ClientRepayValue(loan) ==
    LET interestAmount == (loan.amount * loan.interestRate) \div BPS
    IN  loan.amount + interestAmount

\* A JavaScript value with its type, and the tuple an ethers contract call
\* returns for getLoanDetails: position 1 holds the borrower's address in
\* the contract's struct and in the legacy ABI alike.
BigIntValue(n) == [type |-> "bigint", v |-> n]
StringValue(s) == [type |-> "string", v |-> s]
NumberValue(n) == [type |-> "number", v |-> n]
LoanTuple(loan) ==
    <<BigIntValue(loan.id), StringValue(loan.borrower), BigIntValue(loan.amount),
      BigIntValue(loan.interestRate)>>

\* JavaScript's * , / and + on a bigint throw a TypeError unless both
\* operands are bigint.
Arith(op, x, y) ==
    IF ~x.ok THEN x
    ELSE IF ~y.ok THEN y
    ELSE IF x.value.type = "bigint" /\ y.value.type = "bigint"
    THEN Returns(BigIntValue(CASE op = "*" -> x.value.v * y.value.v
                               [] op = "/" -> x.value.v \div y.value.v
                               [] op = "+" -> x.value.v + y.value.v))
    ELSE Reverts("TypeError")

\* The legacy client's repayLoan: it reads the amount at position 1 and the
\* rate at position 3 of the tuple and divides by the number 10000.
LegacyRepayValue(loanDetails) ==
    LET amount == Returns(loanDetails[2])
        interestRate == Returns(loanDetails[4])
        interestAmount == Arith("/", Arith("*", amount, interestRate),
                                     Returns(NumberValue(BPS)))
    IN  Arith("+", amount, interestAmount)

MaxListeners == 2
Listeners == {"walletProvider", "thrower", "closer"}
ClientOps == {"createLoan", "fundLoan", "debugFundLoan", "repayLoan"}
EthRequestAccounts == <<"adapter", "eth_requestAccounts">>

\* A deployment on which alice has created loans 1 and 2 and bob has funded
\* loan 2: loan 1 is in Funding, loan 2 is Active.
EmptyChain ==
    [loans |-> [i \in IdsMore |-> NoLoan],
     investments |-> [i \in IdsMore |-> [a \in Addr |-> 0]],
     loanLenders |-> [i \in IdsMore |-> <<>>],
     allLoanIds |-> <<>>,
     loanIdCounter |-> 0,
     balance |-> [a \in Addr \cup {Contract} |-> 0],
     events |-> [i \in IdsMore |-> <<>>],
     disbursed |-> [i \in IdsMore |-> <<>>]]

DeployedChain ==
    LET created1 == CreateLoanRun(EmptyChain, NewFrame("createLoan", 0, "alice", 0, EmptyChain),
                                  1, 5000, 1, "seed", 0).st
        created2 == CreateLoanRun(created1, NewFrame("createLoan", 0, "alice", 0, created1),
                                  1, 5000, 1, "seed", 0).st
        funding2 == FundLoanRun(created2, NewFrame("fundLoan", 2, "bob", 1, created2))
    IN  Resume(funding2.st, funding2.fr, TRUE).st

InitClient ==
    /\ loans = DeployedChain.loans
    /\ investments = DeployedChain.investments
    /\ loanLenders = DeployedChain.loanLenders
    /\ allLoanIds = DeployedChain.allLoanIds
    /\ loanIdCounter = DeployedChain.loanIdCounter
    /\ balance = DeployedChain.balance
    /\ events = DeployedChain.events
    /\ disbursed = DeployedChain.disbursed
    /\ now = 0
    /\ stack = <<>>
    /\ InitOffchain

\* ------------------------------------------------------- wallet-change channel
\* onWalletChange: the listener is pushed and its unsubscribe handle returned.
OnWalletChange(listener) ==
    /\ Len(walletChangeListeners) < MaxListeners
    /\ walletChangeListeners' = Append(walletChangeListeners, listener)
    /\ handles' = handles \cup {listener}
    /\ UNCHANGED <<chain, now, stack, selectedAccount, chainId, signer, detecting, inits,
                   notification, reported, call, lastRequest, mockLoans, response>>

\* walletChangeListeners.filter(l => l !== listener)
Without(list, listener) == SelectSeq(list, LAMBDA l : l # listener)

\* The handle onWalletChange returned for the listener is invoked.
Unsubscribe(listener) ==
    /\ listener \in handles
    /\ walletChangeListeners' = Without(walletChangeListeners, listener)
    /\ UNCHANGED <<chain, now, stack, selectedAccount, chainId, signer, detecting, inits,
                   handles, notification, reported, call, lastRequest, mockLoans, response>>

\* getConnectedAccount, up to the promise it returns: with a signer, that
\* signer's address; without, whatever an initEthers run will bring.
GetConnectedAccount(st) ==
    IF st.signer # Null THEN [st EXCEPT !.got = st.signer]
    ELSE [st EXCEPT !.got = "pending", !.inits = @ \cup {"view"},
                    !.lastRequest = EthRequestAccounts]

\* One listener runs. WalletProvider's asks getConnectedAccount for the new
\* address; the thrower throws, which notifyWalletChanged catches; the
\* closer invokes WalletProvider's unsubscribe handle if there is one.
CallListener(listener, st) ==
    LET st1 == [st EXCEPT !.trace = Append(@, <<"call", listener>>)] IN
    CASE listener = "walletProvider" -> GetConnectedAccount(st1)
      [] listener = "thrower" -> st1
      [] listener = "closer" ->
            IF "walletProvider" \in handles
            THEN [st1 EXCEPT !.listeners = Without(@, "walletProvider"),
                             !.trace = Append(@, <<"unsubscribe", "walletProvider">>)]
            ELSE st1

\* notifyWalletChanged: forEach runs over the array it was called on.
RECURSIVE NotifyWalletChanged(_, _)
NotifyWalletChanged(array, st) ==
    IF array = <<>> THEN st
    ELSE NotifyWalletChanged(Tail(array), CallListener(Head(array), st))

\* A client call is between its first read and its return; call.stale
\* notes that the account changed meanwhile, call.old the signer of before.
InFlight == call # NoCall /\ call.phase \in {"preflight", "sign", "wait"}

\* handleAccountsChanged: on disconnect the module's state is reset; the
\* listeners are notified; then initEthers is started if there are accounts
\* and a provider.
HandleAccountsChanged(accounts) ==
    LET signer1 == IF accounts = NoAccount THEN Null ELSE signer
        st == NotifyWalletChanged(walletChangeListeners,
                    [signer |-> signer1, listeners |-> walletChangeListeners, trace |-> <<>>,
                     got |-> "none", inits |-> inits, lastRequest |-> lastRequest])
        reinit == accounts # NoAccount /\ signer1 # Null
    IN  /\ signer' = signer1
        /\ walletChangeListeners' = st.listeners
        /\ notification' = [before |-> walletChangeListeners, trace |-> st.trace]
        /\ reported' = IF st.got = "none" THEN reported
                       ELSE [from |-> selectedAccount, to |-> accounts, got |-> st.got]
        /\ inits' = IF reinit THEN st.inits \cup {"reinit"} ELSE st.inits
        /\ lastRequest' = IF reinit THEN EthRequestAccounts ELSE st.lastRequest
        /\ call' = IF InFlight /\ ~call.stale
                   THEN [call EXCEPT !.stale = TRUE, !.old = signer]
                   ELSE call

\* The user selects another account in the wallet, or disconnects; the
\* adapter hears of it once initEthers has wired the wallet's events.
AccountsChanged(accounts) ==
    /\ accounts # selectedAccount
    /\ selectedAccount' = accounts
    /\ IF detecting THEN HandleAccountsChanged(accounts)
       ELSE UNCHANGED <<signer, walletChangeListeners, notification, reported, inits,
                        lastRequest, call>>
    /\ UNCHANGED <<chain, now, stack, chainId, detecting, handles, mockLoans, response>>

\* The wallet moves to another chain; handleChainChanged reloads the page,
\* which ends every script of the page and resets the module.
ChainChanged(id) ==
    /\ id # chainId
    /\ chainId' = id
    /\ IF detecting
       THEN /\ signer' = PageLoaded.signer
            /\ detecting' = PageLoaded.detecting
            /\ inits' = PageLoaded.inits
            /\ walletChangeListeners' = PageLoaded.walletChangeListeners
            /\ handles' = PageLoaded.handles
            /\ notification' = PageLoaded.notification
            /\ reported' = PageLoaded.reported
            /\ call' = PageLoaded.call
       ELSE UNCHANGED <<signer, detecting, inits, walletChangeListeners, handles,
                        notification, reported, call>>
    /\ UNCHANGED <<chain, now, stack, selectedAccount, lastRequest, mockLoans, response>>

\* ------------------------------------------------------------------ initEthers
\* connectWallet: the interface's button starts initEthers.
ConnectWallet ==
    /\ inits' = inits \cup {"connect"}
    /\ lastRequest' = EthRequestAccounts
    /\ UNCHANGED <<chain, now, stack, selectedAccount, chainId, signer, detecting,
                   walletChangeListeners, handles, notification, reported, call,
                   mockLoans, response>>

\* switchWallet: the wallet is asked for permissions, then initEthers runs.
SwitchWallet ==
    /\ inits' = inits \cup {"connect"}
    /\ lastRequest' = <<"adapter", "wallet_requestPermissions">>
    /\ UNCHANGED <<chain, now, stack, selectedAccount, chainId, signer, detecting,
                   walletChangeListeners, handles, notification, reported, call,
                   mockLoans, response>>

\* switchToSepolia: the interface's button asks the wallet to change chain.
SwitchToSepolia ==
    /\ lastRequest' = <<"interface", "wallet_switchEthereumChain">>
    /\ UNCHANGED <<chain, now, stack, selectedAccount, chainId, signer, detecting, inits,
                   walletChangeListeners, handles, notification, reported, call,
                   mockLoans, response>>

\* Mutant of WrongNetwork: any chain passes.
WrongNetwork_AnyChain(id) == FALSE

\* ensureInitialized: network.chainId !== SEPOLIA_CHAIN_ID
WrongNetwork(id) == id # SEPOLIA_CHAIN_ID

\* The call's transaction is handed to the wallet, from the signer the
\* contract object holds at that moment.
Sign(c) == [c EXCEPT !.phase = "sign", !.from = signer]
Threw(c) == [c EXCEPT !.phase = "threw"]

\* ensureInitialized after the provider answered getNetwork, and what
\* follows it without a pause: createLoan sends its transaction, the others
\* start their reads.
CheckNetwork(c) ==
    LET c1 == [c EXCEPT !.checkedOn = chainId] IN
    IF WrongNetwork(chainId) THEN Threw(c1)
    ELSE IF signer = Null THEN Threw(c1)
    ELSE IF c.op = "createLoan" THEN Sign(c1)
    ELSE [c1 EXCEPT !.phase = "preflight"]

\* An initEthers run ends: the wallet gave its accounts and provider, signer
\* and contract are set for the selected account and the wallet's events
\* wired, or it failed and the three are reset.
InitEthersDone(who, ok) ==
    /\ who \in inits
    /\ ok => selectedAccount # NoAccount
    /\ inits' = inits \ {who}
    /\ signer' = IF ok THEN selectedAccount ELSE Null
    /\ detecting' = (detecting \/ ok)
    /\ reported' = IF who = "view"
                   THEN [reported EXCEPT !.got = IF ok THEN selectedAccount ELSE Null]
                   ELSE reported
    /\ call' = IF who = "call"
               THEN IF ok THEN [call EXCEPT !.phase = "getNetwork"] ELSE Threw(call)
               ELSE call
    /\ UNCHANGED <<chain, now, stack, selectedAccount, chainId, walletChangeListeners,
                   handles, notification, lastRequest, mockLoans, response>>

\* ---------------------------------------------------------------- client calls
\* createLoan, fundLoan, debugFundLoan or repayLoan is called: it enters
\* ensureInitialized, which starts initEthers when the module is not set up.
ClientCall(op, loanId) ==
    /\ call = NoCall
    /\ LET c == [op |-> op, id |-> loanId, phase |-> "getNetwork", checkedOn |-> 0,
                 from |-> Null, stale |-> FALSE, old |-> Null, tx |-> NoTx]
       IN  IF signer = Null
           THEN /\ call' = [c EXCEPT !.phase = "initEthers"]
                /\ inits' = inits \cup {"call"}
                /\ lastRequest' = EthRequestAccounts
           ELSE /\ call' = c
                /\ UNCHANGED <<inits, lastRequest>>
    /\ UNCHANGED <<chain, now, stack, selectedAccount, chainId, signer, detecting,
                   walletChangeListeners, handles, notification, reported,
                   mockLoans, response>>

\* The provider answers getNetwork.
EnsureInitialized ==
    /\ call # NoCall
    /\ call.phase = "getNetwork"
    /\ call' = CheckNetwork(call)
    /\ UNCHANGED <<chain, now, stack, selectedAccount, chainId, signer, detecting, inits,
                   walletChangeListeners, handles, notification, reported, lastRequest,
                   mockLoans, response>>

\* The checks of fundLoan, debugFundLoan and repayLoan on the loan they
\* read and on the signer's address.
PreflightFails(op, loan, currentAddress) ==
    CASE op = "fundLoan" -> loan.borrower = currentAddress \/ loan.amountFunded >= loan.amount
      [] op = "debugFundLoan" -> loan.borrower = currentAddress
      [] op = "repayLoan" -> loan.borrower # currentAddress \/ loan.status # 1

\* The reads of the call come back: the loan from getLoanDetails and the
\* address from the signer; if the checks pass the transaction is sent.
Preflight ==
    /\ call # NoCall
    /\ call.phase = "preflight"
    /\ LET loan == ClientGetLoanDetails(State, call.id) IN
       call' = IF ~loan.ok THEN Threw(call)
               ELSE IF signer = Null THEN Threw(call)
               ELSE IF PreflightFails(call.op, loan.value, signer) THEN Threw(call)
               ELSE Sign(call)
    /\ UNCHANGED <<chain, now, stack, selectedAccount, chainId, signer, detecting, inits,
                   walletChangeListeners, handles, notification, reported, lastRequest,
                   mockLoans, response>>

\* The wallet answers the transaction request: it was sent to the network
\* (createLoan returns it at once, the others wait for it), or refused.
Submitted(ok) ==
    /\ call # NoCall
    /\ call.phase = "sign"
    /\ call' = IF ~ok THEN Threw(call)
               ELSE [call EXCEPT !.phase = IF call.op = "createLoan" THEN "returned" ELSE "wait",
                                 !.tx = [from |-> call.from, chainId |-> chainId,
                                         stale |-> call.stale]]
    /\ UNCHANGED <<chain, now, stack, selectedAccount, chainId, signer, detecting, inits,
                   walletChangeListeners, handles, notification, reported, lastRequest,
                   mockLoans, response>>

\* tx.wait() ends: the transaction was mined and the call returns it, or it
\* reverted and the call throws.
Confirmed(ok) ==
    /\ call # NoCall
    /\ call.phase = "wait"
    /\ call' = IF ok THEN [call EXCEPT !.phase = "returned"] ELSE Threw(call)
    /\ UNCHANGED <<chain, now, stack, selectedAccount, chainId, signer, detecting, inits,
                   walletChangeListeners, handles, notification, reported, lastRequest,
                   mockLoans, response>>

\* The caller has taken the result of the call.
Settled ==
    /\ call # NoCall
    /\ call.phase \in {"returned", "threw"}
    /\ call' = NoCall
    /\ UNCHANGED <<chain, now, stack, selectedAccount, chainId, signer, detecting, inits,
                   walletChangeListeners, handles, notification, reported, lastRequest,
                   mockLoans, response>>

\* ---------------------------------------------------------------------- cancel
\* Mutant of CancelRoute: the status of the loan is not looked at.
CancelRoute_NoStatusCheck(loans_, id) ==
    IF id \notin DOMAIN loans_
    THEN [loans |-> loans_, status |-> 404]
    ELSE [loans |-> [loans_ EXCEPT ![id] = "cancelled"], status |-> 200]

\* POST /api/loans/[id]/cancel
CancelRoute(loans_, id) ==
    IF id \notin DOMAIN loans_
    THEN [loans |-> loans_, status |-> 404]
    ELSE IF loans_[id] # "pending"
    THEN [loans |-> loans_, status |-> 400]
    ELSE [loans |-> [loans_ EXCEPT ![id] = "cancelled"], status |-> 200]

Was(id) == IF id \in DOMAIN mockLoans THEN mockLoans[id] ELSE "none"

POST(id) ==
    /\ mockLoans' = CancelRoute(mockLoans, id).loans
    /\ response' = [via |-> "route", id |-> id, was |-> Was(id),
                    status |-> CancelRoute(mockLoans, id).status]
    /\ UNCHANGED <<chain, now, stack, selectedAccount, chainId, signer, detecting, inits,
                   walletChangeListeners, handles, notification, reported, call, lastRequest>>

\* The legacy client's cancelLoan: its contract object has no cancelLoan,
\* the ABI it was built from names none, so the call throws (status 0: no
\* answer).
CancelLoan(id) ==
    /\ response' = [via |-> "contract", id |-> id, was |-> Was(id), status |-> 0]
    /\ UNCHANGED <<chain, now, stack, selectedAccount, chainId, signer, detecting, inits,
                   walletChangeListeners, handles, notification, reported, call, lastRequest,
                   mockLoans>>

\* The wallet-change channel: the interface subscribes and unsubscribes, the
\* user connects and changes account and chain; no client call is made.
NextWallet ==
    \/ \E l \in Listeners : OnWalletChange(l)
    \/ \E l \in Listeners : Unsubscribe(l)
    \/ \E a \in Addr \cup {NoAccount} : AccountsChanged(a)
    \/ \E id \in ChainIds : ChainChanged(id)
    \/ ConnectWallet
    \/ \E who \in {"connect", "reinit", "view"}, ok \in BOOLEAN : InitEthersDone(who, ok)

SpecWallet == InitClient /\ [][NextWallet]_vars

\* The client calls and the cancel route: the user calls the adapter,
\* changes account and chain and posts cancels; nothing is subscribed.
NextClient ==
    \/ \E a \in Addr \cup {NoAccount} : AccountsChanged(a)
    \/ \E id \in ChainIds : ChainChanged(id)
    \/ SwitchWallet
    \/ SwitchToSepolia
    \/ \E who \in {"connect", "reinit", "call"}, ok \in BOOLEAN : InitEthersDone(who, ok)
    \/ ClientCall("createLoan", 0)
    \/ \E op \in ClientOps \ {"createLoan"}, id \in CreatedIds : ClientCall(op, id)
    \/ EnsureInitialized
    \/ Preflight
    \/ \E ok \in BOOLEAN : Submitted(ok)
    \/ \E ok \in BOOLEAN : Confirmed(ok)
    \/ Settled
    \/ \E id \in {"1", "2", "3"} : POST(id)
    \/ \E id \in {"1", "2", "3"} : CancelLoan(id)

SpecClient == InitClient /\ [][NextClient]_vars


Called(listener, k) == notification.trace[k] = <<"call", listener>>
Unsubscribed(listener, k) == notification.trace[k] = <<"unsubscribe", listener>>

\* C24: in every accountsChanged notification a listener is not called
\* after its unsubscribe handle was invoked, and every listener whose handle
\* was not invoked is called once for each time it is registered, whatever
\* the other listeners do (throwing included).
C24_ListenersCalledOnceUnlessUnsubscribed ==
    \A l \in Listeners :
        /\ \A k \in 1..Len(notification.trace) :
                Called(l, k) => ~\E j \in 1..(k - 1) : Unsubscribed(l, j)
        /\ (~\E j \in 1..Len(notification.trace) : Unsubscribed(l, j)) =>
                Cardinality({k \in 1..Len(notification.trace) : Called(l, k)})
                    = Cardinality({k \in 1..Len(notification.before) :
                                        notification.before[k] = l})

\* C25: when the wallet has switched from an account A to another account B,
\* what WalletProvider's listener gets from getConnectedAccount is B.
C25_ListenerGetsNewAccount ==
    (/\ reported.from \in Addr
     /\ reported.to \in Addr
     /\ reported.from # reported.to
     /\ reported.got \notin {"unset", "pending"}) => reported.got = reported.to

\* C26: a client call during which the account changed does not return its
\* transaction, and does not submit one from the signer of before the change.
C26_StaleCallFails ==
    (call # NoCall /\ call.stale) =>
        /\ call.phase # "returned"
        /\ ~(call.tx # NoTx /\ call.tx.stale /\ call.tx.from = call.old)

\* C27: a client call that found the wallet on another chain than Sepolia
\* throws and submits nothing, every transaction is submitted on Sepolia,
\* and no request of the adapter asks the wallet to switch chain.
C27_WrongNetworkFails ==
    /\ call # NoCall =>
            /\ call.checkedOn \notin {0, SEPOLIA_CHAIN_ID} =>
                    call.phase = "threw" /\ call.tx = NoTx
            /\ call.tx # NoTx => call.tx.chainId = SEPOLIA_CHAIN_ID
    /\ lastRequest[1] = "adapter" => lastRequest[2] # "wallet_switchEthereumChain"

\* repayLoan was called with the wallet on another chain: it threw, and the
\* only switch request came from the interface's button.
C27_Witness ==
    /\ call # NoCall
    /\ call.op = "repayLoan"
    /\ call.checkedOn = SEPOLIA_CHAIN_ID + 1
    /\ call.phase = "threw"
    /\ lastRequest = <<"interface", "wallet_switchEthereumChain">>

====
